---- MODULE Spec2Model ----
(***************************************************************************)
(* Model of src/pages/index.tsx: the chat proxy handler (`handler`, the    *)
(* /api/chat endpoint) and the chat page (`ChatPage`, `sendMessage`).       *)
(*                                                                         *)
(* A text is a sequence of one-character strings (or of opaque chunks such *)
(* as "Hello"), so that trimming, joining and concatenation are computed.  *)
(* Short strings that are only compared (error messages, status texts)     *)
(* are TLA+ strings; "" is the empty, falsy one.                            *)
(***************************************************************************)
EXTENDS Integers, Sequences, FiniteSets, TLC

\* ------------------------------------------------------------------ bounds
\* longest message list of a request body
MaxMsgs == 3
\* most candidates in an upstream body, most parts in a candidate
MaxCands == 2
MaxParts == 2
\* most POSTs the chat page issues in one run
MaxTurns == 2

\* ------------------------------------------------------------- text helpers
Whitespace == {" ", "\n", "\t"}

RECURSIVE TrimStart(_)
TrimStart(s) ==
  IF s = <<>> THEN <<>>
  ELSE IF Head(s) \in Whitespace THEN TrimStart(Tail(s)) ELSE s

RECURSIVE TrimEnd(_)
TrimEnd(s) ==
  IF s = <<>> THEN <<>>
  ELSE IF s[Len(s)] \in Whitespace THEN TrimEnd(SubSeq(s, 1, Len(s) - 1)) ELSE s

\* String.prototype.trim
Trim(s) == TrimEnd(TrimStart(s))

\* Array.prototype.join on an array of texts
RECURSIVE Join(_, _)
Join(ts, sep) ==
  IF ts = <<>> THEN <<>>
  ELSE IF Len(ts) = 1 THEN ts[1]
  ELSE ts[1] \o sep \o Join(Tail(ts), sep)

SeqsUpTo(S, n) == UNION {[1..k -> S] : k \in 0..n}

BlankLine == <<"\n", "\n">>

\* --------------------------------------------------------- handler constants
\* the template literal starts and ends with a line break, and is trimmed
RawSystemPrompt == <<"\n", "N", "A", "L", "A", "\n">>
DEFAULT_SYSTEM_PROMPT == Trim(RawSystemPrompt)
MODEL_ID == "gemini-2.5-flash"
API_VERSION == "v1"

\* ------------------------------------------------------------ handler inputs
\* type UIRole
Roles == {"user", "assistant", "model", "system"}
Contents == {<<" ">>, <<"a">>, <<" ", "b", " ">>}
Msgs == [role : Roles, content : Contents]

\* process.env.GEMINI_API_KEY: unset, empty, or set
Unset == "<unset>"
ApiKeys == {Unset, "", "k3y"}

\* req.body: missing, an object without `messages`, one whose `messages` is
\* not an array, or one whose `messages` is an array
Bodies ==
  {[kind |-> k, messages |-> <<>>] : k \in {"absent", "nomessages", "nonarray"}}
  \cup {[kind |-> "array", messages |-> ms] : ms \in SeqsUpTo(Msgs, MaxMsgs)}

SampleMsgs == << [role |-> "system", content |-> <<" ", "b", " ">>],
                 [role |-> "user", content |-> <<"a">>] >>

Requests ==
  {[method |-> "POST", body |-> b] : b \in Bodies}
  \cup {[method |-> "GET", body |-> b] :
          b \in {[kind |-> "absent", messages |-> <<>>],
                 [kind |-> "array", messages |-> SampleMsgs]}}

\* the upstream response: fetch rejects with an exception, or resolves with a
\* status, a status text and a body that parses as JSON or does not
NoText == [hasText |-> FALSE, text |-> <<>>]
Parts == {NoText} \cup {[hasText |-> TRUE, text |-> t] : t \in {<<"Hello">>, <<" world">>}}
Candidates ==
  {[hasParts |-> FALSE, parts |-> <<>>]}
  \cup {[hasParts |-> TRUE, parts |-> ps] : ps \in SeqsUpTo(Parts, MaxParts)}

NoError == [hasError |-> FALSE, hasMessage |-> FALSE, message |-> ""]
Errors ==
  {NoError, [hasError |-> TRUE, hasMessage |-> FALSE, message |-> ""]}
  \cup {[hasError |-> TRUE, hasMessage |-> TRUE, message |-> m] : m \in {"", "overloaded"}}

EmptyObject == [error |-> NoError, hasCandidates |-> FALSE, candidates |-> <<>>]

ErrorBodies ==
  {[error |-> e, hasCandidates |-> FALSE, candidates |-> <<>>] : e \in Errors}
  \cup {[error |-> [hasError |-> TRUE, hasMessage |-> TRUE, message |-> "overloaded"],
         hasCandidates |-> TRUE,
         candidates |-> <<[hasParts |-> TRUE, parts |-> <<[hasText |-> TRUE, text |-> <<"Hello">>]>>]>>]}

CandidateBodies ==
  {[error |-> NoError, hasCandidates |-> TRUE, candidates |-> cs] :
     cs \in SeqsUpTo(Candidates, MaxCands)}

NoException == [name |-> "", message |-> ""]
FetchExceptions == {[name |-> "TypeError", message |-> "fetch failed"],
                    [name |-> "Error", message |-> ""]}

Statuses == {200, 204, 404, 503}
StatusTexts == {"", "Service Unavailable"}

Response(s, st, j, d) ==
  [kind |-> "response", exc |-> NoException, status |-> s, statusText |-> st,
   json |-> j, data |-> d]

\* every status with every body that has no candidate list; the bodies with a
\* candidate list under one success and one failure status
Outcomes ==
  {[kind |-> "reject", exc |-> e, status |-> 0, statusText |-> "", json |-> "invalid",
    data |-> EmptyObject] : e \in FetchExceptions}
  \cup {Response(s, st, "invalid", EmptyObject) : s \in Statuses, st \in StatusTexts}
  \cup {Response(s, st, "value", d) : s \in Statuses, st \in StatusTexts, d \in ErrorBodies}
  \cup {Response(s, st, "value", d) : s \in {200, 503}, st \in StatusTexts,
                                       d \in CandidateBodies}

CoreOutcomes ==
  {o \in Outcomes :
     \/ o.kind = "reject" /\ o.exc.message # ""
     \/ /\ o.kind = "response" /\ o.status = 503 /\ o.statusText # "" /\ o.json = "value"
        /\ o.data.error.message = "overloaded" /\ ~o.data.hasCandidates
     \/ /\ o.kind = "response" /\ o.status = 200 /\ o.statusText = "" /\ o.json = "value"
        /\ o.data.hasCandidates /\ ~o.data.error.hasError
        /\ o.data.candidates = <<[hasParts |-> TRUE, parts |-> <<[hasText |-> TRUE, text |-> <<"Hello">>]>>]>>}

CoreRequests ==
  {[method |-> "POST", body |-> [kind |-> "array", messages |-> SampleMsgs]]}

\* ------------------------------------------------------------- handler state
VARIABLES hpc, req, apiKey, fetched, upstream, res

hvars == <<hpc, req, apiKey, fetched, upstream, res>>

NoRequest == [method |-> "", body |-> [kind |-> "absent", messages |-> <<>>]]
NoOutcome == [kind |-> "none", exc |-> NoException, status |-> 0, statusText |-> "",
              json |-> "invalid", data |-> EmptyObject]
NoResponse == [status |-> 0, headers |-> {}, body |-> <<>>]

\* ------------------------------------------------------ handler, pure parts
MessagesOf_NoArrayCheck(body) ==
  IF body.kind = "array" THEN body.messages
  ELSE IF body.kind = "nonarray" THEN SampleMsgs ELSE <<>>

\* const messages = Array.isArray(body.messages) ? body.messages : []
MessagesOf(body) == IF body.kind = "array" THEN body.messages ELSE <<>>

Truthy_Defined(s) == s # Unset

\* JavaScript truthiness of an optional string
Truthy(s) == s # Unset /\ s # ""

IsSystemWithText_NoTrim(m) == m.role = "system"

\* m.role === "system" && m.content?.trim()
IsSystemWithText(m) == m.role = "system" /\ Trim(m.content) # <<>>
TrimmedContent(m) == Trim(m.content)

SystemTextFromClient(ms) ==
  LET sys == SelectSeq(ms, IsSystemWithText)
  IN Join([i \in 1..Len(sys) |-> TrimmedContent(sys[i])], BlankLine)

NonEmptyText(t) == t # <<>>

MergedSystemText(ms) ==
  Join(SelectSeq(<<DEFAULT_SYSTEM_PROMPT, SystemTextFromClient(ms)>>, NonEmptyText),
       BlankLine)

NotSystem(m) == m.role # "system"

UpstreamRole_AssistantOnly(role) == IF role = "assistant" THEN "model" ELSE "user"

UpstreamRole(role) == IF role = "assistant" \/ role = "model" THEN "model" ELSE "user"

Turn(m) == [role |-> UpstreamRole(m.role), parts |-> <<[text |-> m.content]>>]

UserAndModelTurns(ms) ==
  LET kept == SelectSeq(ms, NotSystem)
  IN [i \in 1..Len(kept) |-> Turn(kept[i])]

ContentsOf(ms) ==
  <<[role |-> "user", parts |-> <<[text |-> MergedSystemText(ms)]>>]>>
  \o UserAndModelTurns(ms)

Url(key) == <<"https://generativelanguage.googleapis.com/", API_VERSION, "/models/",
              MODEL_ID, ":generateContent?key=", key>>

\* r.ok
Ok(status) == status >= 200 /\ status <= 299

\* await r.json().catch(() => ({}))
ParseJson(r) == IF r.json = "invalid" THEN EmptyObject ELSE r.data

UpstreamErrorMsg_StatusTextFirst(r, data) ==
  IF r.statusText # "" THEN r.statusText
  ELSE IF data.error.hasError /\ data.error.hasMessage /\ data.error.message # ""
  THEN data.error.message
  ELSE "Unknown error"

\* data?.error?.message || r.statusText || "Unknown error"
UpstreamErrorMsg(r, data) ==
  IF data.error.hasError /\ data.error.hasMessage /\ data.error.message # ""
  THEN data.error.message
  ELSE IF r.statusText # "" THEN r.statusText ELSE "Unknown error"

HasText(p) == p.hasText /\ p.text # <<>>
TextOf(p) == p.text

ExtractText_LastCandidate(data) ==
  IF data.hasCandidates /\ Len(data.candidates) > 0
     /\ data.candidates[Len(data.candidates)].hasParts
  THEN LET kept == SelectSeq(data.candidates[Len(data.candidates)].parts, HasText)
       IN Join([i \in 1..Len(kept) |-> TextOf(kept[i])], <<>>)
  ELSE <<>>

\* data?.candidates?.[0]?.content?.parts?.map(p => p?.text).filter(Boolean).join("") || ""
ExtractText(data) ==
  IF data.hasCandidates /\ Len(data.candidates) > 0 /\ data.candidates[1].hasParts
  THEN LET kept == SelectSeq(data.candidates[1].parts, HasText)
       IN Join([i \in 1..Len(kept) |-> TextOf(kept[i])], <<>>)
  ELSE <<>>

NoResponseText == <<"(no response)">>

Description_Generic(exc) == "Internal Server Error"

\* String(err?.message || err)
Description(exc) == IF exc.message # "" THEN exc.message ELSE exc.name

JsonHeader == "Content-Type: application/json; charset=utf-8"

\* ---------------------------------------------------------- handler, actions
Receive(R) ==
  /\ hpc = "idle"
  /\ \E r \in R, k \in ApiKeys :
       /\ req' = r
       /\ apiKey' = k
  /\ hpc' = "running"
  /\ UNCHANGED <<fetched, upstream, res>>

\* from entry to the await of fetch, or to an early return
HandlerStart ==
  /\ hpc = "running"
  /\ LET ms == MessagesOf(req.body) IN
     IF req.method # "POST"
     THEN /\ res' = [status |-> 405, headers |-> {JsonHeader, "Allow: POST"},
                     body |-> [error |-> "Method Not Allowed"]]
          /\ hpc' = "done"
          /\ UNCHANGED fetched
     ELSE IF Len(ms) = 0
     THEN /\ res' = [status |-> 400, headers |-> {JsonHeader},
                     body |-> [error |-> "Missing ms"]]
          /\ hpc' = "done"
          /\ UNCHANGED fetched
     ELSE IF ~Truthy(apiKey)
     THEN /\ res' = [status |-> 500, headers |-> {JsonHeader},
                     body |-> [error |-> "Missing GEMINI_API_KEY"]]
          /\ hpc' = "done"
          /\ UNCHANGED fetched
     ELSE /\ fetched' = Append(fetched, [url |-> Url(apiKey), method |-> "POST",
                                         payload |-> [contents |-> ContentsOf(ms)]])
          /\ hpc' = "awaiting"
          /\ UNCHANGED res
  /\ UNCHANGED <<req, apiKey, upstream>>

\* the outbound call settles
FetchSettle(O) ==
  /\ hpc = "awaiting"
  /\ \E o \in O : upstream' = o
  /\ hpc' = "settled"
  /\ UNCHANGED <<req, apiKey, fetched, res>>

\* from the await of fetch to the response
HandlerResume ==
  /\ hpc = "settled"
  /\ LET data == ParseJson(upstream) IN
     IF upstream.kind = "reject"
     THEN res' = [status |-> 500, headers |-> {JsonHeader},
                  body |-> [error |-> Description(upstream.exc)]]
     ELSE IF ~Ok(upstream.status)
     THEN res' = [status |-> upstream.status, headers |-> {JsonHeader},
                  body |-> [error |-> UpstreamErrorMsg(upstream, data),
                            status |-> upstream.status,
                            model |-> MODEL_ID, version |-> API_VERSION]]
     ELSE LET text == ExtractText(data) IN
          res' = [status |-> 200, headers |-> {JsonHeader},
                  body |-> [text |-> IF text # <<>> THEN text ELSE NoResponseText,
                            model |-> MODEL_ID, version |-> API_VERSION]]
  /\ hpc' = "done"
  /\ UNCHANGED <<req, apiKey, fetched, upstream>>

\* the invocation is over; the handler keeps nothing of it
Finish ==
  /\ hpc = "done"
  /\ hpc' = "idle"
  /\ req' = NoRequest
  /\ apiKey' = Unset
  /\ fetched' = <<>>
  /\ upstream' = NoOutcome
  /\ res' = NoResponse

HInit ==
  /\ hpc = "idle"
  /\ req = NoRequest
  /\ apiKey = Unset
  /\ fetched = <<>>
  /\ upstream = NoOutcome
  /\ res = NoResponse

\* ------------------------------------------------------------ chat page
\* what the user may have typed in the textarea
InputTexts == {<<>>, <<" ">>, <<"2+2?">>, <<" ", "hi", "\n">>}

Greeting == [role |-> "assistant", content |-> <<"Hi! Ask me anything.">>]

\* the response to the POST to /api/chat: fetch rejects, or resolves with a
\* status and a body text that is JSON (null, or an object with an optional
\* `text` and an optional `error`) or is not
NoData == [isNull |-> FALSE, hasText |-> FALSE, text |-> <<>>,
           errorKind |-> "absent", error |-> <<>>]
UIData ==
  {[isNull |-> TRUE, hasText |-> FALSE, text |-> <<>>, errorKind |-> "absent", error |-> <<>>]}
  \cup {[isNull |-> FALSE, hasText |-> TRUE, text |-> t, errorKind |-> "absent", error |-> <<>>] :
          t \in {<<>>, <<"4">>}}
  \cup {[isNull |-> FALSE, hasText |-> FALSE, text |-> <<>>, errorKind |-> k, error |-> <<>>] :
          k \in {"absent", "object"}}
  \cup {[isNull |-> FALSE, hasText |-> FALSE, text |-> <<>>, errorKind |-> "string", error |-> e] :
          e \in {<<>>, <<"overloaded">>}}

UIStatuses == {200, 503}

UIResponses ==
  {[kind |-> "reject", excMessage |-> m, status |-> 0, valid |-> FALSE, raw |-> <<>>,
    data |-> NoData] : m \in {<<>>, <<"Failed to fetch">>}}
  \cup {[kind |-> "response", excMessage |-> <<>>, status |-> st, valid |-> FALSE,
         raw |-> r, data |-> NoData] : st \in UIStatuses, r \in {<<>>, <<"<html>">>}}
  \cup {[kind |-> "response", excMessage |-> <<>>, status |-> st, valid |-> TRUE,
         raw |-> <<"{json}">>, data |-> d] : st \in UIStatuses, d \in UIData}

VARIABLES
  messages,   \* useState: the conversation
  input,      \* useState: the textarea's text
  loading,    \* useState: a request is awaited
  view,       \* the values of the three that the last render gave the handlers
  inflight,   \* the bodies of the POSTs to /api/chat not yet settled
  posts,      \* how many POSTs were issued
  event       \* the last event handled

uvars == <<messages, input, loading, view, inflight, posts, event>>

vars == <<hvars, uvars>>

\* seq flips with every event, so that a step of an event is told from stuttering;
\* for a settled request the event keeps what kind of response it was
NoFacts == [rejected |-> FALSE, non2xx |-> FALSE, badJson |-> FALSE]
NoEvent == [kind |-> "none", seq |-> 0, accepted |-> FALSE, response |-> NoFacts]
Ev(kind, accepted, facts) ==
  [kind |-> kind, seq |-> 1 - event.seq, accepted |-> accepted, response |-> facts]

Accepts_IgnoreLoading(prompt, isLoading) == prompt # <<>>

\* if (!prompt || loading) return;
Accepts(prompt, isLoading) == prompt # <<>> /\ ~isLoading

NextUI_PromptOnly(shown, prompt) == <<[role |-> "user", content |-> prompt]>>

\* const nextUI = [...messages, { role: "user", content: prompt }]
NextUI(shown, prompt) == Append(shown, [role |-> "user", content |-> prompt])

ServerMessage(m) ==
  [role |-> IF m.role = "assistant" THEN "model" ELSE "user", content |-> m.content]

\* JSON.stringify({ messages: serverMessages })
PostBody(nextUI) == [messages |-> [i \in 1..Len(nextUI) |-> ServerMessage(nextUI[i])]]

\* try { data = JSON.parse(raw) } catch { data = { error: raw } }
ParseBody(r) ==
  IF r.valid THEN r.data
  ELSE [isNull |-> FALSE, hasText |-> FALSE, text |-> <<>>,
        errorKind |-> "string", error |-> r.raw]

\* typeof data?.error === "string" ? data.error : `HTTP ${res.status}`
ThrownMessage(r, data) ==
  IF ~data.isNull /\ data.errorKind = "string" THEN data.error
  ELSE <<"HTTP ", ToString(r.status)>>

\* `Error: ${err?.message || "Something went wrong."}`
ErrorBubble(message) ==
  [role |-> "assistant",
   content |-> <<"Error: ">> \o (IF message # <<>> THEN message ELSE <<"Something went wrong.">>)]

\* data?.text ?? "(no response)"
AnswerBubble(data) ==
  [role |-> "assistant",
   content |-> IF ~data.isNull /\ data.hasText THEN data.text ELSE <<"(no response)">>]

\* the message the try/catch of sendMessage appends for a settled fetch
Bubble(r) ==
  IF r.kind = "reject" THEN ErrorBubble(r.excMessage)
  ELSE IF ~Ok(r.status) THEN ErrorBubble(ThrownMessage(r, ParseBody(r)))
  ELSE AnswerBubble(ParseBody(r))

\* sendMessage, from its call to the await of fetch; it reads the values of
\* the render it was created in, and its updates are rendered with the event
SendMessage(kind) ==
  /\ posts < MaxTurns
  /\ LET prompt == Trim(view.input) IN
     IF ~Accepts(prompt, view.loading)
     THEN /\ event' = Ev(kind, FALSE, NoFacts)
          /\ UNCHANGED <<messages, input, loading, view, inflight, posts>>
     ELSE LET nextUI == NextUI(view.messages, prompt) IN
          /\ messages' = nextUI
          /\ input' = <<>>
          /\ loading' = TRUE
          /\ inflight' = Append(inflight, PostBody(nextUI))
          /\ posts' = posts + 1
          /\ view' = [messages |-> nextUI, input |-> <<>>, loading |-> TRUE]
          /\ event' = Ev(kind, TRUE, NoFacts)

\* <form onSubmit={sendMessage}>
Submit == SendMessage("submit")

\* onKeyDown: Enter without Shift sends, any other key does nothing here
KeyDown ==
  \E key \in {"Enter", "a"}, shiftKey \in BOOLEAN :
    IF key = "Enter" /\ ~shiftKey
    THEN SendMessage("enter")
    ELSE /\ event' = Ev("key", FALSE, NoFacts)
         /\ UNCHANGED <<messages, input, loading, view, inflight, posts>>

\* onChange={(e) => setInput(e.target.value)}
Type ==
  \E v \in InputTexts :
    /\ v # input
    /\ input' = v
    /\ view' = [view EXCEPT !.input = v]
    /\ event' = Ev("type", FALSE, NoFacts)
    /\ UNCHANGED <<messages, loading, inflight, posts>>

\* sendMessage, from the await of fetch to its end: one of the outstanding
\* requests settles; the updates are functional and wait for the next render
Settle ==
  \E i \in 1..Len(inflight), r \in UIResponses :
    /\ messages' = Append(messages, Bubble(r))
    /\ loading' = FALSE
    /\ inflight' = SubSeq(inflight, 1, i - 1) \o SubSeq(inflight, i + 1, Len(inflight))
    /\ event' = Ev("settle", FALSE,
                   [rejected |-> r.kind = "reject",
                    non2xx |-> r.kind = "response" /\ (r.status < 200 \/ r.status > 299),
                    badJson |-> r.kind = "response" /\ ~r.valid])
    /\ UNCHANGED <<input, view, posts>>

\* React renders the pending updates
Render ==
  /\ view # [messages |-> messages, input |-> input, loading |-> loading]
  /\ view' = [messages |-> messages, input |-> input, loading |-> loading]
  /\ event' = Ev("render", FALSE, NoFacts)
  /\ UNCHANGED <<messages, input, loading, inflight, posts>>

UInit ==
  /\ messages = <<Greeting>>
  /\ input = <<>>
  /\ loading = FALSE
  /\ view = [messages |-> <<Greeting>>, input |-> <<>>, loading |-> FALSE]
  /\ inflight = <<>>
  /\ posts = 0
  /\ event = NoEvent

\* ------------------------------------------------------------ specifications
Init == HInit /\ UInit

Next ==
  \/ Receive(Requests) /\ UNCHANGED uvars
  \/ HandlerStart /\ UNCHANGED uvars
  \/ FetchSettle(CoreOutcomes) /\ UNCHANGED uvars
  \/ HandlerResume /\ UNCHANGED uvars
  \/ Finish /\ UNCHANGED uvars

\* the handler under every request, with a few upstream outcomes
Spec == Init /\ [][Next]_vars

NextUpstream ==
  \/ Receive(CoreRequests) /\ UNCHANGED uvars
  \/ HandlerStart /\ UNCHANGED uvars
  \/ FetchSettle(Outcomes) /\ UNCHANGED uvars
  \/ HandlerResume /\ UNCHANGED uvars
  \/ Finish /\ UNCHANGED uvars

\* the handler under every upstream outcome, with one request
SpecUpstream == Init /\ [][NextUpstream]_vars

NextPage ==
  \/ Submit /\ UNCHANGED hvars
  \/ KeyDown /\ UNCHANGED hvars
  \/ Type /\ UNCHANGED hvars
  \/ Settle /\ UNCHANGED hvars
  \/ Render /\ UNCHANGED hvars

\* the chat page under every response to its POST
SpecUI == Init /\ [][NextPage]_vars

\* =================================================================== claims
\* the contents of the one call made upstream
Sent == fetched[1].payload.contents
InMessages == req.body.messages
ValidRequest ==
  /\ req.method = "POST"
  /\ req.body.kind = "array"
  /\ Len(req.body.messages) > 0
  /\ apiKey # Unset
  /\ apiKey # ""
Invoked == hpc # "idle"
PastStart == hpc \in {"awaiting", "settled", "done"}
IsJsonError(r) == "error" \in DOMAIN r.body /\ JsonHeader \in r.headers
HasMetadata(r) ==
  /\ {"model", "version"} \subseteq DOMAIN r.body
  /\ r.body.model = "gemini-2.5-flash"
  /\ r.body.version = "v1"

\* C1: a POST whose body has no `messages`, a non-array `messages` or an empty
\* `messages` array is answered with status 400 and a JSON error body, and no
\* upstream call is made during that invocation, whatever the credential.
C1_MissingMessagesIs400 ==
  (/\ Invoked
   /\ req.method = "POST"
   /\ (req.body.kind # "array" \/ Len(req.body.messages) = 0))
  => /\ fetched = <<>>
     /\ hpc \in {"running", "done"}
     /\ hpc = "done" => (res.status = 400 /\ IsJsonError(res))

C1_Witness ==
  /\ hpc = "done"
  /\ req.method = "POST"
  /\ req.body.kind = "nonarray"
  /\ apiKey = "k3y"
  /\ res.status = 400
  /\ fetched = <<>>

\* C2: a POST with a non-empty message list, when GEMINI_API_KEY is absent or
\* empty, is answered with status 500 and a JSON error body, and no upstream
\* call is made during that invocation.
C2_MissingKeyIs500 ==
  (/\ Invoked
   /\ req.method = "POST"
   /\ req.body.kind = "array"
   /\ Len(req.body.messages) > 0
   /\ apiKey \in {Unset, ""})
  => /\ fetched = <<>>
     /\ hpc \in {"running", "done"}
     /\ hpc = "done" => (res.status = 500 /\ IsJsonError(res))

C2_Witness ==
  /\ hpc = "done"
  /\ req.method = "POST"
  /\ Len(req.body.messages) = MaxMsgs
  /\ apiKey = ""
  /\ res.status = 500
  /\ fetched = <<>>

\* positions of the non-system input messages, and the k-th of them
NonSystemIdx(ms) == {i \in 1..Len(ms) : ms[i].role # "system"}
KthNonSystem(ms, k) ==
  CHOOSE i \in NonSystemIdx(ms) : Cardinality({j \in NonSystemIdx(ms) : j <= i}) = k

\* C3: for a valid request the turn sequence sent upstream is one synthetic
\* "user" turn followed by exactly one turn per non-system input message, in
\* input order, none dropped or duplicated; a mapped turn has role "model" iff
\* the input role is assistant or model, "user" otherwise, and carries the
\* input message's content as its text.
C3_TurnsAreMappedInOrder ==
  (Invoked /\ ValidRequest /\ PastStart)
  => /\ Len(fetched) = 1
     /\ Len(Sent) = 1 + Cardinality(NonSystemIdx(InMessages))
     /\ Sent[1].role = "user"
     /\ \A k \in 1..Cardinality(NonSystemIdx(InMessages)) :
          LET m == InMessages[KthNonSystem(InMessages, k)]
              t == Sent[k + 1]
          IN /\ (t.role = "model") <=> (m.role \in {"assistant", "model"})
             /\ (t.role = "user") <=> (m.role \notin {"assistant", "model"})
             /\ t.parts = <<[text |-> m.content]>>

C3_Witness ==
  /\ hpc = "awaiting"
  /\ Len(InMessages) = 3
  /\ InMessages[1].role = "model"
  /\ InMessages[2].role = "system"
  /\ InMessages[3].role = "user"
  /\ InMessages[1].content # InMessages[3].content
  /\ Len(Sent) = 3
  /\ Sent[2].role = "model"
  /\ Sent[3].role = "user"

\* the trimmed text of s, stated by what it is: the part of s between its
\* leading and its trailing run of whitespace
IsTrimOf(t, s) ==
  \E i \in 1..(Len(s) + 1), j \in 0..Len(s) :
    /\ t = SubSeq(s, i, j)
    /\ \A k \in 1..(i - 1) : s[k] \in {" ", "\n", "\t"}
    /\ \A k \in (j + 1)..Len(s) : s[k] \in {" ", "\n", "\t"}
    /\ t # <<>> => (t[1] \notin {" ", "\n", "\t"} /\ t[Len(t)] \notin {" ", "\n", "\t"})
    /\ t = <<>> => \A k \in 1..Len(s) : s[k] \in {" ", "\n", "\t"}
Trimmed(s) == CHOOSE t \in {SubSeq(s, i, j) : i \in 1..(Len(s) + 1), j \in 0..Len(s)} :
                IsTrimOf(t, s)

\* the default prompt, then a blank line and the trimmed text for every system
\* message that has some, in input order
RECURSIVE AppendSystemTexts(_, _)
AppendSystemTexts(acc, ms) ==
  IF ms = <<>> THEN acc
  ELSE IF Head(ms).role = "system" /\ Trimmed(Head(ms).content) # <<>>
  THEN AppendSystemTexts(acc \o <<"\n", "\n">> \o Trimmed(Head(ms).content), Tail(ms))
  ELSE AppendSystemTexts(acc, Tail(ms))

\* C4: for a valid request no system-role message is among the mapped turns,
\* and the synthetic first turn's text is the default system prompt followed,
\* for each system-role message with non-empty trimmed content in input order,
\* by a blank line and that trimmed text, each exactly once; with no such
\* message it is exactly the default system prompt.
C4_SystemTextMergedIntoFirstTurn ==
  (Invoked /\ ValidRequest /\ PastStart)
  => /\ Len(fetched) = 1
     /\ Len(Sent) >= 1
     /\ Sent[1].parts = <<[text |-> AppendSystemTexts(<<"N", "A", "L", "A">>, InMessages)]>>
     /\ Len(Sent) - 1 = Cardinality(NonSystemIdx(InMessages))
     /\ \A k \in 2..Len(Sent) : Sent[k].role \in {"user", "model"}
     /\ (\A i \in 1..Len(InMessages) :
           InMessages[i].role = "system" => Trimmed(InMessages[i].content) = <<>>)
        => Sent[1].parts[1].text = <<"N", "A", "L", "A">>

C4_Witness ==
  /\ hpc = "awaiting"
  /\ Len(InMessages) = 3
  /\ InMessages[1] = [role |-> "system", content |-> <<" ", "b", " ">>]
  /\ InMessages[2] = [role |-> "system", content |-> <<" ">>]
  /\ InMessages[3] = [role |-> "system", content |-> <<"a">>]
  /\ Sent = <<[role |-> "user",
               parts |-> <<[text |-> <<"N", "A", "L", "A", "\n", "\n", "b", "\n", "\n", "a">>]>>]>>

UpstreamFailed == upstream.kind = "response" /\ (upstream.status < 200 \/ upstream.status > 299)
UpstreamSucceeded == upstream.kind = "response" /\ upstream.status >= 200 /\ upstream.status <= 299

\* C5: when the upstream call returns a non-success status S the handler
\* answers with status S and a JSON body whose `status` is S, whose `error` is
\* the upstream body's error.message when there is a (non-empty) one, otherwise
\* the upstream status text, otherwise "Unknown error", and which carries the
\* model and version; no further upstream call is made. Status 503 with body
\* {"error":{"message":"overloaded"}} yields 503, "overloaded", 503.
C5_UpstreamFailureForwarded ==
  (hpc = "done" /\ UpstreamFailed)
  => /\ res.status = upstream.status
     /\ IsJsonError(res)
     /\ "status" \in DOMAIN res.body
     /\ res.body.status = upstream.status
     /\ HasMetadata(res)
     /\ Len(fetched) = 1
     /\ LET hasMsg == /\ upstream.json = "value"
                      /\ upstream.data.error.hasError
                      /\ upstream.data.error.hasMessage
                      /\ upstream.data.error.message # ""
        IN /\ hasMsg => res.body.error = upstream.data.error.message
           /\ (~hasMsg /\ upstream.statusText # "") => res.body.error = upstream.statusText
           /\ (~hasMsg /\ upstream.statusText = "") => res.body.error = "Unknown error"
     /\ (/\ upstream.status = 503
         /\ upstream.json = "value"
         /\ upstream.data.error = [hasError |-> TRUE, hasMessage |-> TRUE,
                                  message |-> "overloaded"])
        => (res.status = 503 /\ res.body.error = "overloaded" /\ res.body.status = 503)

C5_Witness ==
  /\ hpc = "done"
  /\ upstream.kind = "response"
  /\ upstream.status = 503
  /\ upstream.statusText = "Service Unavailable"
  /\ upstream.json = "value"
  /\ upstream.data.error.message = "overloaded"
  /\ res.status = 503
  /\ res.body.error = "overloaded"

\* the text fragments of a part list, concatenated in order
RECURSIVE ConcatTexts(_)
ConcatTexts(ps) ==
  IF ps = <<>> THEN <<>>
  ELSE (IF Head(ps).hasText THEN Head(ps).text ELSE <<>>) \o ConcatTexts(Tail(ps))

\* C6: when the upstream call returns a success status the handler answers
\* with status 200 and a `text` that is the concatenation, in order, of the
\* text fragments of the first candidate's parts (only the first candidate is
\* read); with no candidates, no parts or an empty concatenation `text` is
\* "(no response)". The response carries the model and version.
C6_FirstCandidateTextReturned ==
  (hpc = "done" /\ UpstreamSucceeded)
  => /\ res.status = 200
     /\ "text" \in DOMAIN res.body
     /\ HasMetadata(res)
     /\ LET d == upstream.data
            usable == /\ upstream.json = "value"
                      /\ d.hasCandidates
                      /\ Len(d.candidates) >= 1
                      /\ d.candidates[1].hasParts
                      /\ ConcatTexts(d.candidates[1].parts) # <<>>
        IN /\ usable => res.body.text = ConcatTexts(d.candidates[1].parts)
           /\ ~usable => res.body.text = <<"(no response)">>

C6_Witness ==
  /\ hpc = "done"
  /\ upstream.kind = "response"
  /\ upstream.status = 200
  /\ upstream.json = "value"
  /\ Len(upstream.data.candidates) = 2
  /\ upstream.data.candidates[1].parts =
       <<[hasText |-> TRUE, text |-> <<"Hello">>], [hasText |-> TRUE, text |-> <<" world">>]>>
  /\ upstream.data.candidates[2].parts = <<[hasText |-> TRUE, text |-> <<" world">>]>>
  /\ res.body.text = <<"Hello", " world">>

FetchThrew == upstream.kind = "reject"
JsonParseThrew == upstream.kind = "response" /\ upstream.json = "invalid"

\* C7 (as stated): any exception raised during the outbound call or during
\* the JSON parsing of the upstream response becomes a status 500 response
\* whose `error` carries the exception's description, never a 200.
C7_Original ==
  (hpc = "done" /\ (FetchThrew \/ JsonParseThrew))
  => (res.status = 500 /\ IsJsonError(res))

\* C7 (amended): an exception raised by the outbound call becomes a status 500
\* response whose `error` carries the exception's description (its message,
\* or its name when the message is empty), never a 200. A failure to parse the
\* upstream body as JSON raises nothing: the body counts as an empty object,
\* so a success status yields 200 with text "(no response)" and a failure
\* status S yields S with the status text, or "Unknown error", as `error`.
C7_FetchExceptionIs500 ==
  /\ (hpc = "done" /\ FetchThrew)
     => /\ res.status = 500
        /\ IsJsonError(res)
        /\ res.body.error # ""
        /\ res.body.error \in {upstream.exc.message, upstream.exc.name}
        /\ upstream.exc.message # "" => res.body.error = upstream.exc.message
  /\ (hpc = "done" /\ JsonParseThrew /\ UpstreamSucceeded)
     => /\ res.status = 200
        /\ res.body.text = <<"(no response)">>
  /\ (hpc = "done" /\ JsonParseThrew /\ UpstreamFailed)
     => /\ res.status = upstream.status
        /\ res.body.error =
             (IF upstream.statusText # "" THEN upstream.statusText ELSE "Unknown error")

C7_Witness ==
  /\ hpc = "done"
  /\ FetchThrew
  /\ upstream.exc.message = "fetch failed"
  /\ res.status = 500
  /\ res.body.error = "fetch failed"

\* a step of the chat page that handles an event of one of the kinds
Handles(kinds) == event'.seq # event.seq /\ event'.kind \in kinds
AppendsOne == Len(messages') = Len(messages) + 1 /\ SubSeq(messages', 1, Len(messages)) = messages
Appended == messages'[Len(messages')]
IsErrorBubble(m) ==
  m.role = "assistant" /\ Len(m.content) >= 1 /\ m.content[1] = "Error: "

\* C8 (as stated): in sendMessage, whenever the response to the POST has a
\* non-2xx status or a body that is not valid JSON, exactly one assistant
\* message with the text prefix "Error: " is appended, and no normal answer.
C8_Original ==
  [][(Handles({"settle"}) /\ (event'.response.non2xx \/ event'.response.badJson))
     => (AppendsOne /\ IsErrorBubble(Appended))]_vars

\* C9: the loading flag gates duplicate submissions: under any interleaving
\* of submits (form submit, Enter without Shift) and request completions at
\* most one POST to /api/chat is outstanding, and a submit attempted while one
\* is outstanding issues no POST and appends no message.
C9_LoadingGatesSubmissions ==
  /\ [](Len(inflight) <= 1)
  /\ [][(Handles({"submit", "enter"}) /\ Len(inflight) >= 1)
        => (posts' = posts /\ inflight' = inflight /\ messages' = messages)]_vars

C9_Witness ==
  /\ event.kind = "enter"
  /\ ~event.accepted
  /\ Len(inflight) = 1
  /\ input = <<"2+2?">>
  /\ posts = 1
  /\ Len(messages) = 2

\* C10: from the conversation seeded with one assistant greeting, every
\* accepted send (non-empty trimmed input, not loading) appends exactly one
\* user message and issues exactly one POST carrying the whole conversation
\* so far, the greeting and the new user message included; loading is true
\* while that request is outstanding; once it settles, by success or failure,
\* exactly one assistant message is appended and loading is false again; no
\* earlier message is ever removed or reordered.
C10_OneTurnPerSend ==
  /\ [](messages[1] = [role |-> "assistant", content |-> <<"Hi! Ask me anything.">>])
  /\ [](Len(inflight) >= 1 => (loading /\ view.loading))
  /\ [][(Handles({"submit", "enter"}) /\ Trimmed(view.input) # <<>> /\ ~view.loading)
        => /\ messages' = Append(messages, [role |-> "user", content |-> Trimmed(view.input)])
           /\ posts' = posts + 1
           /\ Len(inflight') = Len(inflight) + 1
           /\ SubSeq(inflight', 1, Len(inflight)) = inflight
           /\ loading'
           /\ LET sent == inflight'[Len(inflight')].messages IN
              /\ Len(sent) = Len(messages')
              /\ \A i \in 1..Len(sent) :
                   /\ sent[i].content = messages'[i].content
                   /\ sent[i].role = (IF messages'[i].role = "assistant" THEN "model" ELSE "user")]_vars
  /\ [][Handles({"settle"})
        => /\ AppendsOne
           /\ Appended.role = "assistant"
           /\ ~loading'
           /\ Len(inflight') = Len(inflight) - 1]_vars
  /\ [][Len(messages') >= Len(messages)
        /\ SubSeq(messages', 1, Len(messages)) = messages]_vars

C10_Witness ==
  /\ posts = 2
  /\ Len(messages) = 5
  /\ messages[2] = [role |-> "user", content |-> <<"hi">>]
  /\ messages[3] = [role |-> "assistant", content |-> <<"4">>]
  /\ messages[4] = [role |-> "user", content |-> <<"2+2?">>]
  /\ messages[5].role = "assistant"
  /\ messages[5].content[1] = "Error: "
  /\ ~loading
  /\ inflight = <<>>
====
